---- MODULE Spec2Model ----
(***************************************************************************)
(* Model of the paged feed controller of the Home screen                   *)
(* (src/src/screens/home.tsx), of the search collaborator it calls         *)
(* (src/src/services/youtubeApi.ts) and of the hover preview of one video  *)
(* card (src/src/components/VideoCard.tsx).  Spec is the feed, HoverSpec   *)
(* is one card from its construction to its unmount.                       *)
(*                                                                         *)
(* A string is a sequence of one-character strings.  A page token is a     *)
(* positive number, the null token is NoToken.  One step of the model is   *)
(* one turn of the JavaScript event loop: an event handler run to its end  *)
(* (followed by the re-render), or the continuation of fetchVideos after   *)
(* its await, run from the await to the end of the finally block.          *)
(***************************************************************************)
EXTENDS Integers, Sequences, FiniteSets, TLC

\* ---------------------------------------------------------------- bounds
\* Longest text the user types into the search box.
MaxQueryLen == 1
\* Number of requests issued in one behaviour (request ids 1..MaxRequests).
MaxRequests == 4
\* Largest page token the search collaborator hands out.
MaxPages == 2
\* Largest number of items of one returned page.
MaxPageLen == 2
\* Largest number of close timers of a card pending at once.
MaxCloseTimers == 2
\* Widest window, in pixels.
MaxWidth == 1300

\* ------------------------------------------------------ program constants
\* null of `pageToken` (useState<string | null>(null)).
NoToken == 0
\* null of `error`.
NoError == "null"
ErrorMessage == "Failed to load videos. Please try again."
\* useState("programming")
DefaultQuery == <<"p", "r", "o", "g", "r", "a", "m", "m", "i", "n", "g">>
\* const paddingToBottom = 20
paddingToBottom == 20

\* Characters the user types: a blank and a letter.
Chars == {" ", "a"}

RECURSIVE TextsOfLen(_)
TextsOfLen(n) ==
    IF n = 0 THEN {<<>>}
    ELSE {Append(t, c) : t \in TextsOfLen(n - 1), c \in Chars}

QueryTexts == UNION {TextsOfLen(n) : n \in 0..MaxQueryLen}

\* Scroll events: layoutMeasurement.height, contentOffset.y, contentSize.height.
LayoutHeights == {800}
ContentOffsets == {1189, 1190, 1200}
ContentHeights == {2010}

\* ------------------------------------------------------------ String.trim
RECURSIVE TrimStart(_)
TrimStart(s) ==
    IF s # <<>> /\ Head(s) = " " THEN TrimStart(Tail(s)) ELSE s

RECURSIVE TrimEnd(_)
TrimEnd(s) ==
    IF s # <<>> /\ s[Len(s)] = " " THEN TrimEnd(SubSeq(s, 1, Len(s) - 1)) ELSE s

Trim(s) == TrimEnd(TrimStart(s))

\* Truthiness of a JavaScript string: the empty string is falsy.
Truthy(s) == s # <<>>

\* null of `popupRect`, and `undefined` as the result of measuring the card.
NoRect == [top |-> -1, left |-> -1, width |-> -1]

\* setTimeout delays of the card, in milliseconds.
HoverDelay == 1800
AnimationDelay == 10
CloseDelay == 200
\* Time advances in steps of the shortest delay.
Quantum == AnimationDelay

\* The rects the card measures at, and the scroll position of the window.
Rects == {[top |-> 100, left |-> 40, width |-> 320],
          [top |-> 500, left |-> 40, width |-> 320]}
WindowScrolls == {[x |-> 0, y |-> 120]}

\* No request: the value of `failed` while no fetch has been rejected.
NoRequest == [id |-> 0, query |-> <<>>, isLoadMore |-> FALSE, pageToken |-> NoToken]

\* Dimensions.get("window").width at construction and in a change event.
InitialWidth == 1024
WindowWidths == 0..MaxWidth

\* ------------------------------------------------------------------ state
VARIABLES
    videos,       \* useState<YouTubeVideo[]>([])
    loading,      \* useState(true)
    loadingMore,  \* useState(false)
    error,        \* useState<string | null>(null)
    searchQuery,  \* useState("programming")
    pageToken,    \* useState<string | null>(null)
    mounted,      \* the mount effect has run
    inflight,     \* calls of searchVideos whose promise is still pending
    nextId,       \* id of the next request
    generation,   \* history: id of the most recently issued search (page 1) request
    solo,         \* history: ids of requests with no other fetch event since their issue
    resolved,     \* history: ids of the requests whose promise resolved
    before,       \* history: `videos` at the issue of each pending request
    failed,       \* history: the request whose rejection last set `error`
    activeQuery,  \* history: the query of the last search whose promise resolved
    event         \* history: the step that produced this state

\* The state of one VideoCard.
VARIABLES
    isHovered,    \* useState(false)
    showPopup,    \* useState(false)
    popupVisible, \* useState(false)
    popupRect,    \* useState<{top, left, width} | null>(null)
    timers,       \* the pending setTimeout calls of the card, in arming order
    cardMounted,  \* the card has not been unmounted
    lastPointer,  \* history: the last pointer event of the card
    cardEvent     \* history: the step that produced this state of the card

\* The layout of the grid of the Home screen.
VARIABLES
    windowWidth,  \* useState(Dimensions.get("window").width)
    columnCount   \* const columnCount = getColumnCount(windowWidth) of the render

home == <<videos, loading, loadingMore, error, searchQuery, pageToken,
          mounted, inflight, nextId, generation, solo, resolved, before, failed,
          activeQuery, event>>

card == <<isHovered, showPopup, popupVisible, popupRect, timers, cardMounted,
          lastPointer, cardEvent>>

layout == <<windowWidth, columnCount>>

vars == <<home, card, layout>>

feed == <<videos, loading, loadingMore, error, pageToken, inflight, nextId>>

\* ------------------------------------------------------------- rendering
\* if (loading) return <spinner/>; if (error) return <error view/>; else the feed.
ShowsSpinner == loading
ShowsError == ~loading /\ error # NoError
ShowsFeed == ~loading /\ error = NoError

\* The phase of the feed, as the screen shows it.
Phase ==
    IF loading THEN "InitialLoading"
    ELSE IF error # NoError THEN "Errored"
    ELSE IF loadingMore THEN "LoadingMore"
    ELSE "Ready"

\* ------------------------------------------------- the search collaborator
\* The page the collaborator returns for (query, pageToken), n items long.
PageItems(query, token, n) ==
    [i \in 1..n |-> [q |-> query, page |-> token + 1, n |-> i]]

\* The tokens it may return with that page: none, or the next one.
NextTokens(token) ==
    {NoToken} \cup (IF token + 1 <= MaxPages THEN {token + 1} ELSE {})

\* ------------------------------------------------------------ fetchVideos
\* fetchVideos up to its await: the state updates and the call of searchVideos.
FetchVideosIssue(query, isLoadMore) ==
    /\ nextId <= MaxRequests
    /\ loadingMore' = (IF isLoadMore THEN TRUE ELSE loadingMore)
    /\ loading' = (IF isLoadMore THEN loading ELSE TRUE)
    /\ pageToken' = (IF isLoadMore THEN pageToken ELSE NoToken)
    /\ error' = NoError
    /\ inflight' = inflight \cup
          {[id |-> nextId, query |-> query, isLoadMore |-> isLoadMore,
            pageToken |-> IF isLoadMore THEN pageToken ELSE NoToken]}
    /\ nextId' = nextId + 1
    /\ generation' = (IF isLoadMore THEN generation ELSE nextId)
    /\ solo' = {nextId}
    /\ before' = [i \in DOMAIN before \cup {nextId} |->
                     IF i = nextId THEN videos ELSE before[i]]
    /\ UNCHANGED <<videos, resolved, failed, activeQuery>>

\* setVideos that appends whatever the request was.
SetVideosAlwaysAppend(prev, isLoadMore, items) == prev \o items

\* setVideos of the continuation: append for load-more, replace otherwise.
SetVideos(prev, isLoadMore, items) ==
    IF isLoadMore THEN prev \o items ELSE items

\* fetchVideos after its await, the promise resolved.
FetchVideosResolved ==
    \E r \in inflight, n \in 0..MaxPageLen :
      \E next \in NextTokens(r.pageToken) :
        LET items == PageItems(r.query, r.pageToken, n) IN
        /\ videos' = SetVideos(videos, r.isLoadMore, items)
        /\ pageToken' = next
        /\ loading' = FALSE
        /\ loadingMore' = FALSE
        /\ inflight' = inflight \ {r}
        /\ solo' = {}
        /\ resolved' = resolved \cup {r.id}
        /\ activeQuery' = (IF r.isLoadMore THEN activeQuery ELSE r.query)
        /\ before' = [i \in DOMAIN before \ {r.id} |-> before[i]]
        /\ event' = [kind |-> "response", ok |-> TRUE, req |-> r, items |-> items,
                     nextPageToken |-> next, prev |-> videos,
                     atIssue |-> before[r.id], solo |-> r.id \in solo]
        /\ UNCHANGED <<error, searchQuery, mounted, nextId, generation, failed>>
        /\ UNCHANGED <<card, layout>>

\* The rejection handled by the catch block alone, with no finally block.
FetchVideosRejectedNoFinally ==
    \E r \in inflight :
        /\ error' = ErrorMessage
        /\ inflight' = inflight \ {r}
        /\ solo' = {}
        /\ failed' = r
        /\ before' = [i \in DOMAIN before \ {r.id} |-> before[i]]
        /\ event' = [kind |-> "response", ok |-> FALSE, req |-> r, items |-> <<>>,
                     nextPageToken |-> NoToken, prev |-> videos,
                     atIssue |-> before[r.id], solo |-> r.id \in solo]
        /\ UNCHANGED <<videos, loading, loadingMore, pageToken, searchQuery, mounted,
                       nextId, generation, resolved, activeQuery>>
        /\ UNCHANGED <<card, layout>>

\* fetchVideos after its await, the promise rejected: catch, then finally.
FetchVideosRejected ==
    \E r \in inflight :
        /\ error' = ErrorMessage
        /\ loading' = FALSE
        /\ loadingMore' = FALSE
        /\ inflight' = inflight \ {r}
        /\ solo' = {}
        /\ failed' = r
        /\ before' = [i \in DOMAIN before \ {r.id} |-> before[i]]
        /\ event' = [kind |-> "response", ok |-> FALSE, req |-> r, items |-> <<>>,
                     nextPageToken |-> NoToken, prev |-> videos,
                     atIssue |-> before[r.id], solo |-> r.id \in solo]
        /\ UNCHANGED <<videos, pageToken, searchQuery, mounted, nextId, generation,
                       resolved, activeQuery>>
        /\ UNCHANGED <<card, layout>>

\* --------------------------------------------------------------- handlers
\* React.useEffect(() => { fetchVideos(searchQuery); }, [])
MountEffect ==
    /\ ~mounted
    /\ mounted' = TRUE
    /\ FetchVideosIssue(searchQuery, FALSE)
    /\ event' = [kind |-> "mount", issued |-> TRUE]
    /\ UNCHANGED searchQuery
    /\ UNCHANGED <<card, layout>>

\* <TextInput onChangeText={setSearchQuery}/>, rendered with the feed only.
ChangeText ==
    \E t \in QueryTexts :
        /\ mounted
        /\ ShowsFeed
        /\ searchQuery' = t
        /\ event' = [kind |-> "text", issued |-> FALSE]
        /\ UNCHANGED <<videos, loading, loadingMore, error, pageToken, mounted,
                       inflight, nextId, generation, solo, resolved, before,
                       failed, activeQuery>>
        /\ UNCHANGED <<card, layout>>

\* handleSearch testing the text as typed, not trimmed.
SearchAcceptedUntrimmed(query) == Truthy(query)

\* The guard of handleSearch.
SearchAccepted(query) == Truthy(Trim(query))

\* handleSearch: the search button and onSubmitEditing, rendered with the feed only.
HandleSearch ==
    /\ mounted
    /\ ShowsFeed
    /\ IF SearchAccepted(searchQuery)
       THEN /\ FetchVideosIssue(searchQuery, FALSE)
            /\ event' = [kind |-> "search", issued |-> TRUE]
       ELSE /\ event' = [kind |-> "search", issued |-> FALSE]
            /\ UNCHANGED <<videos, loading, loadingMore, error, pageToken,
                           inflight, nextId, generation, solo, resolved,
                           before, failed, activeQuery>>
    /\ UNCHANGED <<searchQuery, mounted>>
    /\ UNCHANGED <<card, layout>>

\* isCloseToBottom with the boundary left out.
IsCloseToBottomStrict(layoutHeight, offsetY, contentHeight) ==
    layoutHeight + offsetY > contentHeight - paddingToBottom

\* isCloseToBottom of handleScroll.
IsCloseToBottom(layoutHeight, offsetY, contentHeight) ==
    layoutHeight + offsetY >= contentHeight - paddingToBottom

\* handleScroll without the test of loadingMore.
LoadMoreAllowedWhileLoadingMore(closeToBottom) ==
    closeToBottom /\ ~loading /\ pageToken # NoToken

\* The guard of handleScroll.
LoadMoreAllowed(closeToBottom) ==
    closeToBottom /\ ~loadingMore /\ ~loading /\ pageToken # NoToken

\* handleScroll: onScroll of the ScrollView, rendered with the feed only.
HandleScroll ==
    \E h \in LayoutHeights, y \in ContentOffsets, c \in ContentHeights :
        /\ mounted
        /\ ShowsFeed
        /\ IF LoadMoreAllowed(IsCloseToBottom(h, y, c))
           THEN /\ FetchVideosIssue(searchQuery, TRUE)
                /\ event' = [kind |-> "scroll", issued |-> TRUE,
                             height |-> h, offset |-> y, content |-> c]
           ELSE /\ event' = [kind |-> "scroll", issued |-> FALSE,
                             height |-> h, offset |-> y, content |-> c]
                /\ UNCHANGED <<videos, loading, loadingMore, error, pageToken,
                               inflight, nextId, generation, solo, resolved,
                               before, failed, activeQuery>>
        /\ UNCHANGED <<searchQuery, mounted>>
        /\ UNCHANGED <<card, layout>>

\* The retry button of the error view: onPress={() => fetchVideos(searchQuery)}.
Retry ==
    /\ mounted
    /\ ShowsError
    /\ FetchVideosIssue(searchQuery, FALSE)
    /\ event' = [kind |-> "retry", issued |-> TRUE]
    /\ UNCHANGED <<searchQuery, mounted>>
    /\ UNCHANGED <<card, layout>>

\* ----------------------------------------------------------------- layout
\* getColumnCount with the widest breakpoint left out.
GetColumnCountStrict(width) ==
    IF width > 1200 THEN 4
    ELSE IF width >= 900 THEN 3
    ELSE IF width >= 600 THEN 2
    ELSE 1

\* getColumnCount: the number of columns of the grid for a window width.
GetColumnCount(width) ==
    IF width >= 1200 THEN 4
    ELSE IF width >= 900 THEN 3
    ELSE IF width >= 600 THEN 2
    ELSE 1

\* The listener of Dimensions "change": setWindowWidth(window.width), then the
\* render that computes columnCount.
DimensionsChange ==
    \E w \in WindowWidths :
        /\ windowWidth' = w
        /\ columnCount' = GetColumnCount(w)
        /\ UNCHANGED <<home, card>>

\* ---------------------------------------------------------- specification
Init ==
    /\ videos = <<>>
    /\ loading = TRUE
    /\ loadingMore = FALSE
    /\ error = NoError
    /\ searchQuery = DefaultQuery
    /\ pageToken = NoToken
    /\ mounted = FALSE
    /\ inflight = {}
    /\ nextId = 1
    /\ generation = 0
    /\ solo = {}
    /\ resolved = {}
    /\ before = <<>>
    /\ failed = NoRequest
    /\ activeQuery = <<>>
    /\ event = [kind |-> "init", issued |-> FALSE]
    /\ isHovered = FALSE
    /\ showPopup = FALSE
    /\ popupVisible = FALSE
    /\ popupRect = NoRect
    /\ timers = <<>>
    /\ cardMounted = TRUE
    /\ lastPointer = "none"
    /\ cardEvent = [kind |-> "init"]
    /\ windowWidth = InitialWidth
    /\ columnCount = GetColumnCount(windowWidth)

Next ==
    \/ MountEffect
    \/ ChangeText
    \/ HandleSearch
    \/ HandleScroll
    \/ Retry
    \/ FetchVideosResolved
    \/ FetchVideosRejected

Spec == Init /\ [][Next]_vars

\* The feed where the mount effect runs after the first render and every
\* pending promise of searchVideos settles.
FairSpec ==
    /\ Spec
    /\ WF_vars(MountEffect)
    /\ WF_vars(FetchVideosResolved \/ FetchVideosRejected)

\* The window of the Home screen resized any number of times.
LayoutNext == DimensionsChange

LayoutSpec == Init /\ [][LayoutNext]_vars

\* ------------------------------------------------------------- VideoCard
\* A pending timer is [kind, left, ref]: the callback it runs ("show", "anim"
\* or "close"), the time left until it fires and whether the ref of its kind
\* (hoverTimeoutRef, animationTimeoutRef) still holds its id.  The close timer
\* of handlePortalLeave is stored in no ref.

\* clearTimeout(ref.current): cancels the timer the ref of that kind holds.
ClearTimeout(ts, kind) ==
    SelectSeq(ts, LAMBDA t : ~(t.kind = kind /\ t.ref))

\* ref.current = setTimeout(callback, delay): the ref now holds the new id.
SetTimeoutRef(ts, kind, delay) ==
    Append([i \in 1..Len(ts) |->
               IF ts[i].kind = kind THEN [ts[i] EXCEPT !.ref = FALSE] ELSE ts[i]],
           [kind |-> kind, left |-> delay, ref |-> TRUE])

\* setTimeout(callback, delay), the id dropped.
SetTimeout(ts, kind, delay) ==
    Append(ts, [kind |-> kind, left |-> delay, ref |-> FALSE])

\* The timers without the i-th, which has fired.
Fired(ts, i) == SubSeq(ts, 1, i - 1) \o SubSeq(ts, i + 1, Len(ts))

\* The timers of a kind that are due.
Due(kind) == {i \in 1..Len(timers) : timers[i].kind = kind /\ timers[i].left = 0}

Pending(kind) == {i \in 1..Len(timers) : timers[i].kind = kind}

\* A state update of the card; React drops the updates of an unmounted component.
SetState(new, old) == IF cardMounted THEN new ELSE old

\* The overlay is rendered: {showPopup && popupRect && createPortal(...)}.
ShowsPortal == cardMounted /\ showPopup /\ popupRect # NoRect

\* What measuring the card gives when the show timer fires: a rect, undefined,
\* or an exception; undefined once the wrapper ref is null.
Measurements ==
    IF cardMounted
    THEN {[threw |-> TRUE, rect |-> NoRect]}
         \cup {[threw |-> FALSE, rect |-> r] : r \in Rects \cup {NoRect}}
    ELSE {[threw |-> FALSE, rect |-> NoRect]}

\* if (rect) of the show callback, with every value taken as a rect.
RectFoundAlways(rect) == TRUE

\* if (rect) of the show callback.
RectFound(rect) == rect # NoRect

\* The popup position computed from the measured rect.
PopupRectOf(rect, scroll) ==
    [top |-> rect.top + scroll.y, left |-> rect.left + scroll.x,
     width |-> rect.width]

\* handleHoverIn arming its timer over the one already pending.
HoverInTimersNoClear(ts) == SetTimeoutRef(ts, "show", HoverDelay)

\* The timers after handleHoverIn: the pending show timer cleared, a new one armed.
HoverInTimers(ts) ==
    SetTimeoutRef(ClearTimeout(ts, "show"), "show", HoverDelay)

\* handleHoverIn: onMouseEnter of the card.
HandleHoverIn ==
    /\ cardMounted
    /\ isHovered' = TRUE
    /\ timers' = HoverInTimers(timers)
    /\ lastPointer' = "enterCard"
    /\ cardEvent' = [kind |-> "enterCard", pending |-> Pending("show") # {}]
    /\ UNCHANGED <<showPopup, popupVisible, popupRect, cardMounted>>
    /\ UNCHANGED <<home, layout>>

\* The callback of the show timer (1800 ms after handleHoverIn).
HoverTimeoutFires ==
    \E i \in Due("show"), m \in Measurements, scroll \in WindowScrolls :
        /\ IF ~m.threw /\ RectFound(m.rect)
           THEN /\ popupRect' = SetState(PopupRectOf(m.rect, scroll), popupRect)
                /\ showPopup' = SetState(TRUE, showPopup)
                /\ timers' = SetTimeoutRef(Fired(timers, i), "anim", AnimationDelay)
           ELSE /\ timers' = Fired(timers, i)
                /\ UNCHANGED <<popupRect, showPopup>>
        /\ cardEvent' = [kind |-> "showFire", threw |-> m.threw, rect |-> m.rect]
        /\ UNCHANGED <<isHovered, popupVisible, cardMounted, lastPointer>>
        /\ UNCHANGED <<home, layout>>

\* The animation timer's callback without its setPopupVisible(true).
AnimationTimeoutFiresNoFlag ==
    \E i \in Due("anim") :
        /\ timers' = Fired(timers, i)
        /\ cardEvent' = [kind |-> "animFire"]
        /\ UNCHANGED <<isHovered, showPopup, popupVisible, popupRect, cardMounted,
                       lastPointer>>
        /\ UNCHANGED <<home, layout>>

\* The callback of the animation timer (10 ms after the popup is mounted).
AnimationTimeoutFires ==
    \E i \in Due("anim") :
        /\ popupVisible' = SetState(TRUE, popupVisible)
        /\ timers' = Fired(timers, i)
        /\ cardEvent' = [kind |-> "animFire"]
        /\ UNCHANGED <<isHovered, showPopup, popupRect, cardMounted, lastPointer>>
        /\ UNCHANGED <<home, layout>>

\* handleHoverOut ignoring no leave.
HoverOutNeverIgnored == FALSE

\* The guard of handleHoverOut: if (showPopup) return.
HoverOutIgnored == showPopup

\* handleHoverOut leaving the show timer armed.
HoverOutTimersKept(ts) == ts

\* The timers after an accepted handleHoverOut.
HoverOutTimers(ts) == ClearTimeout(ts, "show")

\* handleHoverOut: onMouseLeave of the card.
HandleHoverOut ==
    /\ cardMounted
    /\ IF HoverOutIgnored
       THEN UNCHANGED <<isHovered, showPopup, popupRect, timers>>
       ELSE /\ timers' = HoverOutTimers(timers)
            /\ isHovered' = FALSE
            /\ showPopup' = FALSE
            /\ popupRect' = NoRect
    /\ lastPointer' = "leaveCard"
    /\ cardEvent' = [kind |-> "leaveCard", ignored |-> HoverOutIgnored,
                     pending |-> Pending("show") # {}, prev |-> lastPointer]
    /\ UNCHANGED <<popupVisible, cardMounted>>
    /\ UNCHANGED <<home, layout>>

\* onMouseEnter of the overlay.
PortalMouseEnter ==
    /\ ShowsPortal
    /\ isHovered' = TRUE
    /\ showPopup' = TRUE
    /\ popupVisible' = TRUE
    /\ lastPointer' = "enterOverlay"
    /\ cardEvent' = [kind |-> "enterOverlay", closing |-> Pending("close") # {}]
    /\ UNCHANGED <<popupRect, timers, cardMounted>>
    /\ UNCHANGED <<home, layout>>

\* handlePortalLeave: onMouseLeave of the overlay.
HandlePortalLeave ==
    /\ ShowsPortal
    /\ Cardinality(Pending("close")) < MaxCloseTimers
    /\ timers' = SetTimeout(ClearTimeout(ClearTimeout(timers, "show"), "anim"),
                            "close", CloseDelay)
    /\ isHovered' = FALSE
    /\ popupVisible' = FALSE
    /\ lastPointer' = "leaveOverlay"
    /\ cardEvent' = [kind |-> "leaveOverlay", closing |-> Pending("close") # {}]
    /\ UNCHANGED <<showPopup, popupRect, cardMounted>>
    /\ UNCHANGED <<home, layout>>

\* The close callback keeping the anchor geometry.
ClosedRectKept(rect) == rect

\* popupRect after the close callback: setPopupRect(null).
ClosedRect(rect) == NoRect

\* The callback of the close timer (200 ms after handlePortalLeave).
CloseTimeoutFires ==
    \E i \in Due("close") :
        /\ showPopup' = SetState(FALSE, showPopup)
        /\ popupRect' = SetState(ClosedRect(popupRect), popupRect)
        /\ timers' = Fired(timers, i)
        /\ cardEvent' = [kind |-> "closeFire", shown |-> showPopup,
                         late |-> ~cardMounted]
        /\ UNCHANGED <<isHovered, popupVisible, cardMounted, lastPointer>>
        /\ UNCHANGED <<home, layout>>

\* The cleanup of the unmount effect.
Unmount ==
    /\ cardMounted
    /\ cardMounted' = FALSE
    /\ timers' = ClearTimeout(ClearTimeout(timers, "show"), "anim")
    /\ cardEvent' = [kind |-> "unmount"]
    /\ UNCHANGED <<isHovered, showPopup, popupVisible, popupRect, lastPointer>>
    /\ UNCHANGED <<home, layout>>

\* Time passes: no timer is due, every timer is one quantum nearer.
Tick ==
    /\ timers # <<>>
    /\ \A i \in 1..Len(timers) : timers[i].left >= Quantum
    /\ timers' = [i \in 1..Len(timers) |->
                     [timers[i] EXCEPT !.left = @ - Quantum]]
    /\ cardEvent' = [kind |-> "tick"]
    /\ UNCHANGED <<isHovered, showPopup, popupVisible, popupRect, cardMounted,
                   lastPointer>>
    /\ UNCHANGED <<home, layout>>

\* What the card renders: the "Keep hovering to play" badge, the duration
\* badge of a card that has a duration, and the dimmed container.
KeepHoveringBadge == isHovered /\ ~showPopup
DurationBadge == ~isHovered
ContainerDimmed == showPopup

HoverNext ==
    \/ HandleHoverIn
    \/ HoverTimeoutFires
    \/ AnimationTimeoutFires
    \/ HandleHoverOut
    \/ PortalMouseEnter
    \/ HandlePortalLeave
    \/ CloseTimeoutFires
    \/ Unmount
    \/ Tick

HoverSpec == Init /\ [][HoverNext]_vars

\* The card where time passes and every timer that is due runs its callback.
HoverFairSpec ==
    /\ HoverSpec
    /\ WF_vars(Tick)
    /\ WF_vars(HoverTimeoutFires)
    /\ WF_vars(AnimationTimeoutFires)
    /\ WF_vars(CloseTimeoutFires)

\* The phase of the hover preview.
HoverPhase ==
    IF showPopup
    THEN IF popupVisible THEN "PopupVisible"
         ELSE IF isHovered THEN "PopupShown" ELSE "PopupClosing"
    ELSE IF isHovered THEN "Hovering" ELSE "Idle"

\* ------------------------------------------------------------------ claims
\* The step that produced this state is the continuation of a fetch.
IsResponse(e) == e.kind = "response"
SearchResolved(e) == IsResponse(e) /\ e.ok /\ ~e.req.isLoadMore
SearchRejected(e) == IsResponse(e) /\ ~e.ok /\ ~e.req.isLoadMore
LoadMoreResolved(e) == IsResponse(e) /\ e.ok /\ e.req.isLoadMore
LoadMoreRejected(e) == IsResponse(e) /\ ~e.ok /\ e.req.isLoadMore

\* C1: the response of a search that a later search has superseded, arriving
\* after the later search's own successful response, overwrites neither items
\* nor cursor.
C1_StaleSearchDiscarded ==
    [][(SearchResolved(event') /\ event'.req.id < generation
            /\ generation \in resolved)
        => (videos' = videos /\ pageToken' = pageToken)]_vars

\* C2: the response of a load-more that a later search has superseded neither
\* appends its page to items nor sets cursor, whenever it arrives.
C2_StaleLoadMoreDiscarded ==
    [][(LoadMoreResolved(event') /\ event'.req.id < generation)
        => (videos' = videos /\ pageToken' = pageToken)]_vars

\* C3: at most one fetch is in flight in every reachable state.
C3_AtMostOneInFlight == Cardinality(inflight) <= 1

\* C4: a scroll event never issues a load-more request while an earlier
\* load-more request is still in flight.
C4_NoConcurrentLoadMore ==
    [][(event'.kind = "scroll" /\ event'.issued)
        => (\A r \in inflight : ~r.isLoadMore)]_vars

\* C5: a search with a query that is non-empty after trimming, followed by its
\* successful response with no other fetch in between, ends in phase Ready with
\* items equal to the returned page and cursor equal to its nextPageToken.
C5_SearchReplaces ==
    (SearchResolved(event) /\ event.solo /\ Truthy(Trim(event.req.query)))
    => /\ Phase = "Ready"
       /\ ~loading /\ ~loadingMore /\ error = NoError
       /\ videos = event.items
       /\ pageToken = event.nextPageToken

\* C5 happens: a search resolved with a non-empty page over a non-empty list.
C5_Witness ==
    /\ SearchResolved(event) /\ event.solo /\ Truthy(Trim(event.req.query))
    /\ event.prev # <<>>
    /\ event.items # <<>>
    /\ event.nextPageToken # NoToken

\* C6: after each successful load-more response items is the previous items
\* followed by the returned page, cursor is the response's nextPageToken and
\* the phase is Ready.
C6_LoadMoreAppends ==
    LoadMoreResolved(event)
    => /\ videos = event.prev \o event.items
       /\ pageToken = event.nextPageToken
       /\ Phase = "Ready"

\* C7: a scroll event that arrives while the phase is not Ready or the cursor
\* is absent issues no request and changes neither items, cursor nor phase.
C7_LoadMoreNoOp ==
    [][(event'.kind = "scroll" /\ ~(Phase = "Ready" /\ pageToken # NoToken))
        => UNCHANGED feed]_vars

\* C7 happens: a scroll to the bottom while a load-more is in flight.
C7_Witness ==
    /\ event.kind = "scroll"
    /\ IsCloseToBottom(event.height, event.offset, event.content)
    /\ ~event.issued
    /\ Phase = "LoadingMore"
    /\ pageToken # NoToken

\* C8: a search with an empty or whitespace-only query issues no request,
\* changes no state and surfaces no error.
C8_BlankSearchNoOp ==
    [][(event'.kind = "search" /\ Trim(searchQuery) = <<>>)
        => (UNCHANGED feed /\ searchQuery' = searchQuery /\ error' = NoError)]_vars

\* C8 happens: the search button pressed on a whitespace-only text.
C8_Witness ==
    /\ event.kind = "search"
    /\ ~event.issued
    /\ searchQuery # <<>>
    /\ Trim(searchQuery) = <<>>

\* C9: when a load-more request fails the phase is Ready again, with items
\* and cursor as they were.
C9_LoadMoreFailureReady ==
    [][LoadMoreRejected(event')
        => (Phase' = "Ready" /\ videos' = videos /\ pageToken' = pageToken)]_vars

\* C10: when a search request fails the phase is Errored, items is as it was
\* before the search and cursor is absent.
C10_SearchFailureErrored ==
    SearchRejected(event)
    => /\ Phase = "Errored"
       /\ error # NoError /\ ~loading /\ ~loadingMore
       /\ videos = event.atIssue
       /\ pageToken = NoToken

\* C11: the retry after a failed search issues a page-1 request whose query is
\* the query of the failed search.
C11_RetrySameQuery ==
    [][(event'.kind = "retry" /\ failed.id > 0 /\ ~failed.isLoadMore)
        => (\E r \in inflight' \ inflight :
               /\ ~r.isLoadMore
               /\ r.pageToken = NoToken
               /\ r.query = failed.query)]_vars

\* C20: a scroll event issues a load-more request if and only if
\* visibleHeight + scrollOffset >= contentHeight - 20, the phase is Ready and
\* the cursor is present.
C20_ScrollThreshold ==
    [][(event'.kind = "scroll")
        => (event'.issued <=>
               /\ event'.height + event'.offset >= event'.content - 20
               /\ Phase = "Ready"
               /\ pageToken # NoToken)]_vars

\* C20 happens: a load-more issued by a scroll exactly at the threshold.
C20_Witness ==
    /\ event.kind = "scroll"
    /\ event.issued
    /\ event.height + event.offset = event.content - 20

\* The values the card is constructed with, no timer pending.
CardIdle(hovered, popup, visible, rect, ts) ==
    /\ ~hovered /\ ~popup /\ ~visible
    /\ rect = NoRect
    /\ ts = <<>>

\* C12: pointerEnter(card) from Idle followed by pointerLeave(card) before the
\* show timer fires cancels the timer and leaves the card Idle, no geometry
\* captured and no popup flag set.
C12_LeaveBeforeShow ==
    [][(/\ cardEvent'.kind = "leaveCard"
        /\ lastPointer = "enterCard"
        /\ isHovered /\ ~showPopup /\ ~popupVisible /\ popupRect = NoRect
        /\ Len(timers) = 1 /\ timers[1].kind = "show")
        => CardIdle(isHovered', showPopup', popupVisible', popupRect', timers')]_vars

\* C12 happens: the card left while the show timer of the enter was pending.
C12_Witness ==
    /\ cardEvent.kind = "leaveCard"
    /\ cardEvent.prev = "enterCard"
    /\ cardEvent.pending
    /\ ~cardEvent.ignored
    /\ CardIdle(isHovered, showPopup, popupVisible, popupRect, timers)

\* C13: pointerLeave(card) while the phase is PopupShown or PopupVisible
\* changes no flag, no geometry and no timer.
C13_LeaveIgnoredWhenShown ==
    [][(cardEvent'.kind = "leaveCard"
            /\ HoverPhase \in {"PopupShown", "PopupVisible"})
        => UNCHANGED <<isHovered, showPopup, popupVisible, popupRect, timers>>]_vars

\* C13 happens: the card left while the popup is visible.
C13_Witness ==
    /\ cardEvent.kind = "leaveCard"
    /\ cardEvent.ignored
    /\ HoverPhase = "PopupVisible"

\* C14: when the close timer armed by the last pointerLeave(overlay) fires with
\* no pointer event since, the card is Idle with every flag at its initial
\* value and no timer pending.
C14_CloseReachesIdle ==
    [][(/\ cardEvent'.kind = "closeFire"
        /\ lastPointer = "leaveOverlay"
        /\ cardMounted
        /\ Cardinality(Pending("close")) = 1)
        => CardIdle(isHovered', showPopup', popupVisible', popupRect', timers')]_vars

\* C14 happens: the close timer removed the popup after the overlay was left.
C14_Witness ==
    /\ cardEvent.kind = "closeFire"
    /\ cardEvent.shown
    /\ lastPointer = "leaveOverlay"
    /\ cardMounted
    /\ CardIdle(isHovered, showPopup, popupVisible, popupRect, timers)

\* C15: after pointerEnter(overlay) has followed pointerLeave(overlay), the
\* close timer of that leave clears neither showPopup nor popupRect.
C15_EnterCancelsClose ==
    [][(cardEvent'.kind = "closeFire" /\ lastPointer = "enterOverlay")
        => (showPopup' = showPopup /\ popupRect' = popupRect)]_vars

\* C16: after the unmount of the card no timer of the card is pending.
C16_UnmountCancelsTimers == ~cardMounted => timers = <<>>

\* C17: at most one show timer of the card is pending.
C17_OneShowTimer == Cardinality(Pending("show")) <= 1

\* C17 happens: pointerEnter(card) while a show timer was pending.
C17_Witness ==
    /\ cardEvent.kind = "enterCard"
    /\ cardEvent.pending
    /\ Cardinality(Pending("show")) = 1

\* C18: when the show timer fires and the card cannot be measured, the popup
\* does not appear: showPopup stays false, popupRect null, popupVisible as it
\* was, isHovered true, and no animation timer is armed.
C18_MeasureFailureAborts ==
    [][(/\ cardEvent'.kind = "showFire"
        /\ (cardEvent'.threw \/ cardEvent'.rect = NoRect)
        /\ ~showPopup)
        => /\ ~showPopup'
           /\ popupRect' = NoRect
           /\ popupVisible' = popupVisible
           /\ isHovered'
           /\ Len(timers') = Len(timers) - 1
           /\ \A i \in 1..Len(timers') : timers'[i].kind # "anim"]_vars

\* C18 happens: the show timer fired on a card whose measure threw.
C18_Witness ==
    /\ cardEvent.kind = "showFire"
    /\ cardEvent.threw
    /\ HoverPhase = "Hovering"
    /\ ~popupVisible

\* C19: while the popup is up, showPopup and popupRect are cleared by the
\* firing of a close timer only.
C19_OnlyCloseTimerCloses ==
    [][(showPopup /\ (~showPopup' \/ popupRect' = NoRect))
        => cardEvent'.kind = "closeFire"]_vars

\* C19 happens: a close timer took the popup down.
C19_Witness ==
    /\ cardEvent.kind = "closeFire"
    /\ cardEvent.shown
    /\ ~cardEvent.late
    /\ ~showPopup
\* C21: the grid has 4 columns from 1200 pixels of width, 3 from 900, 2 from
\* 600 and 1 below; the count is one of 1..4, and a window made wider never
\* gets fewer columns.
C21_StepFunction ==
    [][/\ (windowWidth' >= 1200) => columnCount' = 4
       /\ (windowWidth' >= 900 /\ windowWidth' < 1200) => columnCount' = 3
       /\ (windowWidth' >= 600 /\ windowWidth' < 900) => columnCount' = 2
       /\ (windowWidth' < 600) => columnCount' = 1
       /\ columnCount' \in 1..4
       /\ (windowWidth' >= windowWidth) => columnCount' >= columnCount]_vars

C21_Witness ==
    /\ windowWidth \in {599, 600, 899, 900, 1199, 1200}
    /\ columnCount = GetColumnCount(windowWidth)

\* C22: a load-more request carries the active query, the query of the most
\* recent search that succeeded; text typed into the search box and not
\* submitted does not change it.
C22_LoadMoreActiveQuery ==
    [][(event'.kind = "scroll" /\ event'.issued)
        => (\E r \in inflight' \ inflight :
               /\ r.isLoadMore
               /\ r.query = activeQuery)]_vars

\* C23: no request is sent with a query that is empty after trimming.
C23_NoBlankQuery ==
    \A r \in inflight : Truthy(Trim(r.query))

\* C24: while a search is in flight `loading` is true and `pageToken` is null,
\* whatever else arrives in the meantime.
C24_SearchHoldsLoading ==
    (\E r \in inflight : ~r.isLoadMore) => (loading /\ pageToken = NoToken)

\* C25: if every request settles the feed does not stay loading or loading
\* more forever, and once the screen is mounted and no request is in flight
\* both `loading` and `loadingMore` are false.
C25_LoadingEnds ==
    /\ []((mounted /\ inflight = {}) => (~loading /\ ~loadingMore))
    /\ (loading \/ loadingMore) ~> (~loading /\ ~loadingMore)

C25_Witness ==
    /\ IsResponse(event)
    /\ ~event.ok
    /\ event.req.isLoadMore
    /\ inflight = {}
    /\ ~loading /\ ~loadingMore

\* C26: the show timer firing on a measurable card mounts the popup with
\* popupVisible still false; popupVisible never becomes true in the step in
\* which showPopup turns from false to true.
C26_TwoStepAppearance ==
    [][/\ (/\ cardEvent'.kind = "showFire"
           /\ ~cardEvent'.threw
           /\ cardEvent'.rect # NoRect
           /\ cardMounted
           /\ ~showPopup)
          => (showPopup' /\ popupRect' # NoRect /\ ~popupVisible')
       /\ (~showPopup /\ showPopup') => ~(~popupVisible /\ popupVisible')]_vars

\* C27: the card is measured only by a show timer that fires while showPopup
\* is false and isHovered is true, and popupRect does not change while
\* showPopup is true.
C27_GeometryOnce ==
    [][/\ (cardEvent'.kind = "showFire" /\ cardMounted)
          => (~showPopup /\ isHovered)
       /\ (showPopup /\ showPopup') => popupRect' = popupRect]_vars

\* C28: after a pointerLeave(card) in a state other than PopupShown and
\* PopupVisible (Hovering, or PopupClosing: the popup fading out with its
\* close timer pending) no show timer is pending; no popup appears from a
\* show timer whose pointerEnter(card) was followed by a pointerLeave(card).
C28_LeaveCancelsShow ==
    [][/\ (/\ cardEvent'.kind = "leaveCard"
           /\ \/ ~showPopup
              \/ ~popupVisible /\ Pending("close") # {})
          => (\A i \in 1..Len(timers') : timers'[i].kind # "show")
       /\ (/\ cardEvent'.kind = "showFire"
           /\ lastPointer = "leaveCard"
           /\ ~showPopup)
          => ~showPopup']_vars

\* C29: the keep-hovering badge is shown only in the Hovering phase and never
\* on a card whose popup has just been closed; it is never shown together
\* with the duration badge; the card is dimmed whenever showPopup is true.
C29_DisplayFlags ==
    /\ KeepHoveringBadge => HoverPhase = "Hovering"
    /\ ~(KeepHoveringBadge /\ DurationBadge)
    /\ showPopup => ContainerDimmed
    /\ (cardEvent.kind = "closeFire" /\ cardEvent.shown /\ cardMounted)
          => ~KeepHoveringBadge

\* C30: at most one close timer of a card is pending.
C30_OneCloseTimer ==
    Cardinality(Pending("close")) <= 1

\* The pointer has just entered a card that showed no popup and had no show
\* timer pending.
EnteredIdle ==
    /\ cardEvent.kind = "enterCard"
    /\ ~cardEvent.pending
    /\ cardMounted
    /\ isHovered /\ ~showPopup /\ ~popupVisible
    /\ popupRect = NoRect

\* The last step was a pointer event or the unmount of the card.
PointerOrUnmount ==
    cardEvent.kind \in {"enterCard", "leaveCard", "enterOverlay", "leaveOverlay",
                        "unmount"}

\* The last step was a pointer event or the unmount that came after the
\* pointerEnter(card) of EnteredIdle.
Interrupted ==
    PointerOrUnmount /\ ~EnteredIdle

\* The last step was a show timer firing on a card it could not measure.
CaptureFailed ==
    /\ cardEvent.kind = "showFire"
    /\ cardEvent.threw \/ cardEvent.rect = NoRect

\* The popup is up and animated in, and no timer is pending.
PopupVisibleSettled ==
    /\ showPopup /\ popupVisible
    /\ popupRect # NoRect
    /\ timers = <<>>

\* C31: after a pointerEnter(card) on an idle card, unless a further pointer
\* event or the unmount comes or the card cannot be measured, the show timer
\* and the animation timer fire and the card reaches PopupVisible; there it
\* stays until the next pointer event or the unmount.
C31_HoverReachesVisible ==
    /\ EnteredIdle ~> (PopupVisibleSettled \/ Interrupted \/ CaptureFailed)
    /\ [][PopupVisibleSettled => (PopupVisibleSettled' \/ PointerOrUnmount')]_vars

\* C31 happens: the animation timer of an undisturbed hover made the popup
\* visible.
C31_Witness ==
    /\ cardEvent.kind = "animFire"
    /\ lastPointer = "enterCard"
    /\ PopupVisibleSettled

\* C32: showPopup is true exactly when popupRect is not null.
C32_PopupIffRect ==
    showPopup <=> popupRect # NoRect

\* C32 happens: the show timer set both, and a close timer cleared both.
C32_Witness ==
    /\ cardEvent.kind = "closeFire"
    /\ cardEvent.shown
    /\ ~cardEvent.late
    /\ ~showPopup
    /\ popupRect = NoRect

\* C33: popupVisible is true only while showPopup is true.
C33_VisibleImpliesShown ==
    popupVisible => showPopup

====
